---------------------------- MODULE Spec2Model ----------------------------
(***************************************************************************)
(* A model of the turn orchestration and tool-routing pipeline of the      *)
(* research assistant (src/src/response_generation.py) together with the   *)
(* retrieval client it calls (src/src/arxiv_api_client.py) and the         *)
(* reranker (src/src/reranker.py).                                         *)
(*                                                                         *)
(* A Python str is modelled as a sequence of lexemes (TLA+ strings): its   *)
(* value is the concatenation of the lexemes.  Completions are kept in     *)
(* the lexeme split of a JSON tokenizer, so that json.loads and the        *)
(* regular expression of _route_llm_output can be computed on them.        *)
(***************************************************************************)
EXTENDS Integers, Sequences, FiniteSets, TLC

(***************************************************************************)
(* Bounds of the model.                                                    *)
(***************************************************************************)
\* generate_response calls started on the session
MaxCalls == 2
\* documents one fetch returns at most (the code asks for up to 50)
MaxPapers == 4

(***************************************************************************)
(* Lexemes                                                                 *)
(***************************************************************************)
Quote(s) == "\"" \o s \o "\""

\* contents of the JSON string literals that occur in completions
StrContents ==
  {"function", "arguments", "query", "none", "search_arxiv", "foo", "",
   "au:Einstein", "a{b}"}

StrToks == {Quote(s) : s \in StrContents}
NumToks == {"0", "42"}
WsToks == {" ", "\n"}
\* a Markdown code fence (three backquotes; written with tildes here)
FENCE == "~~~"

IsStrTok(tok) == tok \in StrToks
Unquote(tok) == CHOOSE s \in StrContents : tok = Quote(s)

\* the lexemes in which a brace character occurs
HasBrace(tok) == tok \in {"{", "}", Quote("a{b}")}

(***************************************************************************)
(* str.strip(): leading and trailing whitespace removed.                   *)
(***************************************************************************)
RECURSIVE LStrip(_)
LStrip(t) ==
  IF t # <<>> /\ Head(t) \in WsToks THEN LStrip(Tail(t)) ELSE t

RECURSIVE RStrip(_)
RStrip(t) ==
  IF t # <<>> /\ t[Len(t)] \in WsToks
    THEN RStrip(SubSeq(t, 1, Len(t) - 1))
    ELSE t

Strip(t) == RStrip(LStrip(t))

(***************************************************************************)
(* JSON values, as json.loads builds them.  Every value has the same       *)
(* shape: k its kind, s its scalar text, m its members in order (pairs     *)
(* <<key, value>>; the key of an array item is the empty string).          *)
(***************************************************************************)
JNull == [k |-> "null", s |-> "", m |-> <<>>]
JStr(s) == [k |-> "str", s |-> s, m |-> <<>>]
JNum(s) == [k |-> "num", s |-> s, m |-> <<>>]
JBool(s) == [k |-> "bool", s |-> s, m |-> <<>>]
JArr(m) == [k |-> "arr", s |-> "", m |-> m]
JObj(m) == [k |-> "obj", s |-> "", m |-> m]

\* dict.get(key, default): a repeated key keeps its last value
Get(obj, key, default) ==
  LET hits == {i \in 1..Len(obj.m) : obj.m[i][1] = key}
  IN  IF hits = {} THEN default
      ELSE obj.m[CHOOSE i \in hits : \A j \in hits : j <= i][2]

\* Python truthiness: the values v for which (not v) is True
Falsy(v) ==
  \/ v.k = "null"
  \/ v.k = "str" /\ v.s = ""
  \/ v.k = "num" /\ v.s = "0"
  \/ v.k = "bool" /\ v.s = "false"
  \/ v.k \in {"arr", "obj"} /\ v.m = <<>>

\* repr(v), and str(v), which differs from it on a str only
RECURSIVE PyRepr(_)
RECURSIVE PyJoin(_, _, _)
PyJoin(m, i, dict) ==
  IF i > Len(m) THEN ""
  ELSE (IF i > 1 THEN ", " ELSE "")
       \o (IF dict THEN "'" \o m[i][1] \o "': " ELSE "")
       \o PyRepr(m[i][2]) \o PyJoin(m, i + 1, dict)

PyRepr(v) ==
  CASE v.k = "null" -> "None"
    [] v.k = "str" -> "'" \o v.s \o "'"
    [] v.k = "num" -> v.s
    [] v.k = "bool" -> (IF v.s = "true" THEN "True" ELSE "False")
    [] v.k = "arr" -> "[" \o PyJoin(v.m, 1, FALSE) \o "]"
    [] OTHER -> "{" \o PyJoin(v.m, 1, TRUE) \o "}"

PyStr(v) == IF v.k = "str" THEN v.s ELSE PyRepr(v)

(***************************************************************************)
(* json.loads on a lexeme sequence: one value, whitespace around every     *)
(* lexeme, nothing but whitespace after the value.  A parse result is      *)
(* [ok, v, next]: next is the position after the value.                    *)
(***************************************************************************)
ParseFail == [ok |-> FALSE, v |-> JNull, next |-> 0]
ParseOk(v, next) == [ok |-> TRUE, v |-> v, next |-> next]

RECURSIVE SkipWs(_, _)
SkipWs(t, i) ==
  IF i <= Len(t) /\ t[i] \in WsToks THEN SkipWs(t, i + 1) ELSE i

RECURSIVE ParseValue(_, _)
RECURSIVE ParseMembers(_, _, _, _)
RECURSIVE ParseItems(_, _, _, _)

\* the members of an object from position i0; first: no member read yet
ParseMembers(t, i0, acc, first) ==
  LET i == SkipWs(t, i0)
  IN  IF i > Len(t) THEN ParseFail
      ELSE IF first /\ t[i] = "}" THEN ParseOk(JObj(acc), i + 1)
      ELSE IF ~IsStrTok(t[i]) THEN ParseFail
      ELSE LET c == SkipWs(t, i + 1)
           IN  IF c > Len(t) \/ t[c] # ":" THEN ParseFail
               ELSE LET r == ParseValue(t, c + 1)
                        e == SkipWs(t, r.next)
                        acc2 == Append(acc, <<Unquote(t[i]), r.v>>)
                    IN  IF ~r.ok \/ e > Len(t) THEN ParseFail
                        ELSE IF t[e] = "}" THEN ParseOk(JObj(acc2), e + 1)
                        ELSE IF t[e] = ","
                          THEN ParseMembers(t, e + 1, acc2, FALSE)
                        ELSE ParseFail

\* the items of an array from position i0
ParseItems(t, i0, acc, first) ==
  LET i == SkipWs(t, i0)
  IN  IF i > Len(t) THEN ParseFail
      ELSE IF first /\ t[i] = "]" THEN ParseOk(JArr(acc), i + 1)
      ELSE LET r == ParseValue(t, i)
               e == SkipWs(t, r.next)
               acc2 == Append(acc, <<"", r.v>>)
           IN  IF ~r.ok \/ e > Len(t) THEN ParseFail
               ELSE IF t[e] = "]" THEN ParseOk(JArr(acc2), e + 1)
               ELSE IF t[e] = "," THEN ParseItems(t, e + 1, acc2, FALSE)
               ELSE ParseFail

ParseValue(t, i0) ==
  LET i == SkipWs(t, i0)
  IN  IF i > Len(t) THEN ParseFail
      ELSE IF t[i] = "{" THEN ParseMembers(t, i + 1, <<>>, TRUE)
      ELSE IF t[i] = "[" THEN ParseItems(t, i + 1, <<>>, TRUE)
      ELSE IF IsStrTok(t[i]) THEN ParseOk(JStr(Unquote(t[i])), i + 1)
      ELSE IF t[i] \in NumToks THEN ParseOk(JNum(t[i]), i + 1)
      ELSE IF t[i] \in {"true", "false"} THEN ParseOk(JBool(t[i]), i + 1)
      ELSE IF t[i] = "null" THEN ParseOk(JNull, i + 1)
      ELSE ParseFail

\* json.loads(t): JSONDecodeError is ok = FALSE
JsonLoads(t) ==
  LET r == ParseValue(t, 1)
  IN  IF r.ok /\ SkipWs(t, r.next) > Len(t) THEN r ELSE ParseFail

(***************************************************************************)
(* re.search of the pattern of line 96 (an opening brace, characters      *)
(* other than braces, the word function in double quotes, characters       *)
(* other than braces, a closing brace): the leftmost opening brace from    *)
(* which the next brace character is a closing brace with the quoted word  *)
(* function in between.  The result is <<first, last>>, or <<0, 0>> when   *)
(* nothing matches.                                                        *)
(***************************************************************************)
MatchEnd(t, i) ==
  LET braces == {j \in (i + 1)..Len(t) : HasBrace(t[j])}
  IN  IF braces = {} THEN 0
      ELSE LET j == CHOOSE x \in braces : \A y \in braces : x <= y
           IN  IF t[j] = "}"
                  /\ \E f \in (i + 1)..(j - 1) : t[f] = Quote("function")
                 THEN j
                 ELSE 0

ReSearch(t) ==
  LET starts == {i \in 1..Len(t) : t[i] = "{" /\ MatchEnd(t, i) # 0}
  IN  IF starts = {} THEN <<0, 0>>
      ELSE LET i == CHOOSE x \in starts : \A y \in starts : x <= y
           IN  <<i, MatchEnd(t, i)>>

(***************************************************************************)
(* ResearchAssistant._route_llm_output.  Its outcome is a returned text,   *)
(* an exception that leaves the method, or the call                        *)
(* self._search_arxiv(query), whose result it returns.                     *)
(***************************************************************************)
Returned(text) == [kind |-> "return", text |-> text, query |-> JNull]
Raises == [kind |-> "raise", text |-> <<>>, query |-> JNull]
CallsSearch(q) == [kind |-> "search", text |-> <<>>, query |-> q]

\* f"Error: Unknown function '{func_name}'"
UnknownFunctionMessage(func_name) ==
  <<"Error: Unknown function '" \o PyStr(func_name) \o "'">>

\* the message with repr(query) in place of str(query)
NoPapersMessageRepr(query) == <<"No papers found for query: " \o PyRepr(query)>>

\* f"No papers found for query: {query}"
NoPapersMessage(query) == <<"No papers found for query: " \o PyStr(query)>>

\* Dispatch without the branch for none: the name falls to the last branch
DispatchWithoutNone(output, llm_output) ==
  IF output.k # "obj" THEN Raises
  ELSE LET func_name == Get(output, "function", JNull)
           args == Get(output, "arguments", JObj(<<>>))
       IN  IF Falsy(func_name) THEN Returned(llm_output)
           ELSE IF func_name = JStr("search_arxiv")
             THEN IF args.k # "obj" THEN Raises
                  ELSE CallsSearch(Get(args, "query", JStr("")))
           ELSE Returned(UnknownFunctionMessage(func_name))

\* Dispatch raising on an unknown function instead of reporting it
DispatchRaisingOnUnknown(output, llm_output) ==
  IF output.k # "obj" THEN Raises
  ELSE LET func_name == Get(output, "function", JNull)
           args == Get(output, "arguments", JObj(<<>>))
       IN  IF Falsy(func_name) THEN Returned(llm_output)
           ELSE IF func_name = JStr("none") THEN Returned(<<>>)
           ELSE IF func_name = JStr("search_arxiv")
             THEN IF args.k # "obj" THEN Raises
                  ELSE CallsSearch(Get(args, "query", JStr("")))
           ELSE Raises

\* only a missing or null function name taken as no function call
DispatchUnlessNone(output, llm_output) ==
  IF output.k # "obj" THEN Raises
  ELSE LET func_name == Get(output, "function", JNull)
           args == Get(output, "arguments", JObj(<<>>))
       IN  IF func_name = JNull THEN Returned(llm_output)
           ELSE IF func_name = JStr("none") THEN Returned(<<>>)
           ELSE IF func_name = JStr("search_arxiv")
             THEN IF args.k # "obj" THEN Raises
                  ELSE CallsSearch(Get(args, "query", JStr("")))
           ELSE Returned(UnknownFunctionMessage(func_name))

\* the query read with args["query"], which raises KeyError when missing
DispatchRequiringQuery(output, llm_output) ==
  IF output.k # "obj" THEN Raises
  ELSE LET func_name == Get(output, "function", JNull)
           args == Get(output, "arguments", JObj(<<>>))
       IN  IF Falsy(func_name) THEN Returned(llm_output)
           ELSE IF func_name = JStr("none") THEN Returned(<<>>)
           ELSE IF func_name = JStr("search_arxiv")
             THEN IF args.k # "obj" \/ Get(args, "query", JNull) = JNull
                    THEN Raises
                  ELSE CallsSearch(Get(args, "query", JStr("")))
           ELSE Returned(UnknownFunctionMessage(func_name))

\* every function name but none treated as search_arxiv
DispatchSearchingByDefault(output, llm_output) ==
  IF output.k # "obj" THEN Raises
  ELSE LET func_name == Get(output, "function", JNull)
           args == Get(output, "arguments", JObj(<<>>))
       IN  IF Falsy(func_name) THEN Returned(llm_output)
           ELSE IF func_name = JStr("none") THEN Returned(<<>>)
           ELSE IF args.k # "obj" THEN Raises
           ELSE CallsSearch(Get(args, "query", JStr("")))

\* lines 107-122: output is what json.loads returned
Dispatch(output, llm_output) ==
  IF output.k # "obj" THEN Raises   \* output.get: AttributeError
  ELSE LET func_name == Get(output, "function", JNull)
           args == Get(output, "arguments", JObj(<<>>))
       IN  IF Falsy(func_name) THEN Returned(llm_output)
           ELSE IF func_name = JStr("none") THEN Returned(<<>>)
           ELSE IF func_name = JStr("search_arxiv")
             THEN IF args.k # "obj" THEN Raises   \* args.get: AttributeError
                  ELSE CallsSearch(Get(args, "query", JStr("")))
           ELSE Returned(UnknownFunctionMessage(func_name))

\* lines 91-105: the object the router reads (ok), or no function call
ParseLlmOutput(llm_output) ==
  LET whole == JsonLoads(Strip(llm_output))
      json_match == ReSearch(llm_output)
      part == JsonLoads(SubSeq(llm_output, json_match[1], json_match[2]))
  IN  IF whole.ok THEN whole
      ELSE IF json_match[1] = 0 THEN ParseFail
      ELSE part

\* _route_llm_output returning the trimmed text when there is no envelope
RouteLlmOutputTrimmed(llm_output) ==
  LET output == ParseLlmOutput(llm_output)
  IN  IF output.ok THEN Dispatch(output.v, llm_output)
      ELSE Returned(Strip(llm_output))

\* lines 91-122
RouteLlmOutput(llm_output) ==
  LET output == ParseLlmOutput(llm_output)
  IN  IF output.ok THEN Dispatch(output.v, llm_output)
      ELSE Returned(llm_output)

(***************************************************************************)
(* The retrieval client: fetch_and_parse_arxiv and the Paper it builds.    *)
(***************************************************************************)
\* max_results of the call in _search_arxiv
FetchCap == 50

Min(a, b) == IF a <= b THEN a ELSE b

\* the i-th entry of a feed; every second entry carries a PDF link
Entry(i) ==
  [id |-> "http://arxiv.org/abs/" \o ToString(i),
   title |-> "Title" \o ToString(i),
   summary |-> <<" ", "Abstract" \o ToString(i), "\n">>,
   links |-> IF i % 2 = 1
               THEN <<[href |-> "http://arxiv.org/pdf/" \o ToString(i),
                       type |-> "application/pdf"]>>
               ELSE <<[href |-> "http://arxiv.org/abs/" \o ToString(i),
                       type |-> "text/html"]>>]

\* what feedparser.parse and the loop over feed.entries can do: deliver n
\* entries, or raise inside the try block
Feeds ==
  {[raises |-> TRUE, entries |-> <<>>]}
  \cup {[raises |-> FALSE, entries |-> [i \in 1..n |-> Entry(i)]] :
          n \in 0..Min(MaxPapers, FetchCap)}

\* _parse_arxiv_entry, on the fields the pipeline reads
ParseArxivEntry(entry) ==
  [id |-> entry.id, title |-> entry.title,
   summary |-> Strip(entry.summary), links |-> entry.links]

\* Paper.pdf_url: the first PDF link, or None
PdfUrl(paper) ==
  LET pdf == {i \in 1..Len(paper.links) :
                paper.links[i].type = "application/pdf"}
  IN  IF pdf = {} THEN "None"
      ELSE paper.links[CHOOSE i \in pdf : \A j \in pdf : i <= j].href

\* the fields of the dataclass ArxivResponse: its constructor raises
\* TypeError on any other keyword
ArxivResponseFields == {"query", "start", "max_results", "papers"}
ArxivResponseAccepts(keywords) == keywords \subseteq ArxivResponseFields

\* the keywords of the two constructor calls of fetch_and_parse_arxiv
SuccessKeywords == {"query", "start", "max_results", "papers"}
HandlerKeywords == {"query", "start", "max_results", "total_results", "papers"}

\* the error paper of the except handler
ErrorPaper ==
  [id |-> "", title |-> "Error: feed", summary |-> <<>>, links |-> <<>>]

\* fetch_and_parse_arxiv: [raised, papers]
FetchAndParseArxiv(feed) ==
  IF ~feed.raises
    THEN [raised |-> ~ArxivResponseAccepts(SuccessKeywords),
          papers |-> [i \in 1..Len(feed.entries) |->
                        ParseArxivEntry(feed.entries[i])]]
    ELSE [raised |-> ~ArxivResponseAccepts(HandlerKeywords),
          papers |-> <<ErrorPaper>>]

(***************************************************************************)
(* The retrieval pipeline of _search_arxiv: rerank, sort, top 3.           *)
(***************************************************************************)
\* relevance scores, compared only by their order
ScoreValues == {1, 2}

\* papers_and_scores[:3]
TopK == 3

\* list(zip(papers, scores))
Zip(papers, scores) ==
  [i \in 1..Min(Len(papers), Len(scores)) |-> <<papers[i], scores[i]>>]

\* a pair placed ahead of the pairs of equal score
InsertByScoreAheadOfTies(sorted, x) ==
  LET ahead == Cardinality({i \in 1..Len(sorted) : sorted[i][2] > x[2]})
  IN  SubSeq(sorted, 1, ahead) \o <<x>> \o SubSeq(sorted, ahead + 1, Len(sorted))

\* one step of list.sort(key=score, reverse=True), which is stable: x goes
\* behind every pair whose score is at least its own
InsertByScore(sorted, x) ==
  LET ahead == Cardinality({i \in 1..Len(sorted) : sorted[i][2] >= x[2]})
  IN  SubSeq(sorted, 1, ahead) \o <<x>> \o SubSeq(sorted, ahead + 1, Len(sorted))

RECURSIVE SortByScore(_)
SortByScore(pairs) ==
  IF pairs = <<>> THEN <<>>
  ELSE InsertByScore(SortByScore(SubSeq(pairs, 1, Len(pairs) - 1)),
                     pairs[Len(pairs)])

\* the slice taken one past its bound
TopPapersAndOneMore(papers_and_scores) ==
  SubSeq(papers_and_scores, 1, Min(TopK + 1, Len(papers_and_scores)))

\* line 138: papers_and_scores[:3]
TopPapers(papers_and_scores) ==
  SubSeq(papers_and_scores, 1, Min(TopK, Len(papers_and_scores)))

\* the prompt of _generate_paper_summary
RECURSIVE PaperParts(_)
PaperParts(papers_and_scores) ==
  IF papers_and_scores = <<>> THEN <<>>
  ELSE LET paper == Head(papers_and_scores)[1]
       IN  <<"\n", "Title: " \o paper.title, "\n", "Abstract: ">>
           \o paper.summary
           \o <<"\n", "PDF URL: " \o PdfUrl(paper), "\n">>
           \o PaperParts(Tail(papers_and_scores))

SummaryPrompt(papers_and_scores) ==
  <<"You are a research assistant summarizing academic papers.">>
  \o PaperParts(papers_and_scores)
  \o <<"\n", "For each paper, write a comprehensive summary">>

\* messages of _generate_paper_summary: a single user turn
SummaryMessages(papers_and_scores) ==
  <<[role |-> "user", content |-> SummaryPrompt(papers_and_scores)]>>

(***************************************************************************)
(* Completions of the language model.                                      *)
(***************************************************************************)
\* {"function": fn, "arguments": args}
Envelope(fn, args) ==
  <<"{", Quote("function"), ":", " ", fn, ",", " ", Quote("arguments"), ":",
    " ">> \o args \o <<"}">>

\* {"query": q}
QueryArgs(q) == <<"{", Quote("query"), ":", " ", Quote(q), "}">>

SearchEnvelope(q) == Envelope(Quote("search_arxiv"), QueryArgs(q))

\* what the routing call can generate (outputs[0]["generated_text"])
GeneratedTexts ==
  { <<"Hi", " ", "there">>,
    <<" ">> \o SearchEnvelope("au:Einstein") \o <<"\n">>,
    <<"{", Quote("function"), ":", " ", Quote("search_arxiv"), "}">>,
    Envelope(Quote("search_arxiv"), <<"null">>),
    Envelope(Quote("search_arxiv"), <<"{", "}">>),
    <<"Hi", " ", "{", Quote("function"), ":", Quote("none"), "}">>,
    Envelope(Quote("foo"), QueryArgs("au:Einstein")) }

\* what the synthesis call can generate
SummaryTexts == { <<" ", "Summary", "\n">> }

UserTexts == { <<"Search for quantum computing.">>, <<"Hello">> }

SYSTEM_PROMPT == <<"You are a search query engineer.">>

(***************************************************************************)
(* State.                                                                  *)
(***************************************************************************)
Threads == {"t1", "t2"}

VARIABLES
  conversation_history,    \* self.conversation_history
  original_user_question,  \* self.original_user_question
  frame,                   \* per thread: its generate_response call
  ncalls,                  \* generate_response calls started so far
  turns,                   \* those calls: user_text, completion once returned
  route_in,                \* argument of a direct _route_llm_output call
  route_out,               \* and its outcome
  split_in,                \* arguments of a direct _split_text_into_chunks call
  split_out                \* and the chunks it returned

vars ==
  <<conversation_history, original_user_question, frame, ncalls, turns,
    route_in, route_out, split_in, split_out>>

Turn(role, content) == [role |-> role, content |-> content]

\* an external call, as the callee sees it: op the capability, question
\* and texts the ranker's arguments, msgs the messages rendered for the
\* model, q and max_results the arguments of the fetch; out, n and scores
\* are what it returned, fault tells that the capability behind it failed,
\* started counts the generate_response calls begun when it was made
ExternalCall(op, question, texts, msgs, q) ==
  [op |-> op, question |-> question, texts |-> texts, msgs |-> msgs, q |-> q,
   max_results |-> 0, out |-> <<>>, n |-> 0, scores |-> <<>>,
   fault |-> FALSE, started |-> ncalls]

\* the call with what it returned: a text (the model), n results (the feed,
\* the ranker)
Answered(call, out, n) == [call EXCEPT !.out = out, !.n = n]

\* the call whose capability failed
Faulted(call) == [call EXCEPT !.fault = TRUE]

\* the frame of a thread that is not in generate_response.  pc is the
\* position in the call; before and calls record the history at the start
\* of the call and the external calls made in it; error names the call
\* that raised, number is the rank of the call among the calls begun.
IdleFrame ==
  [pc |-> "idle", number |-> 0, user_text |-> <<>>, bot_response |-> <<>>,
   query |-> JNull, papers |-> <<>>, papers_and_scores |-> <<>>,
   top_papers |-> <<>>,
   final_response |-> <<>>, before |-> <<>>, calls |-> <<>>,
   error |-> "none"]

NotRouted == [kind |-> "pending", text |-> <<>>, query |-> JNull]

\* no call of _split_text_into_chunks, and a call that has not returned
NoSplitArguments == [text |-> <<>>, max_length |-> 0]
NotSplit == [returned |-> FALSE, chunks |-> <<>>]

Init ==
  /\ conversation_history = <<>>
  /\ original_user_question = <<>>
  /\ frame = [t \in Threads |-> IdleFrame]
  /\ ncalls = 0
  /\ turns = <<>>
  /\ route_in = <<>>
  /\ route_out = NotRouted
  /\ split_in = NoSplitArguments
  /\ split_out = NotSplit

(***************************************************************************)
(* ResearchAssistant.generate_response, step by step.                      *)
(***************************************************************************)
\* the history started over on every call: the system prompt and the new
\* user turn only
HistoryRestartedWithUserTurn(history, user_text) ==
  <<Turn("system", SYSTEM_PROMPT), Turn("user", user_text)>>

\* the system prompt added on every call
HistoryWithSystemTurnAgain(history, user_text) ==
  history \o <<Turn("system", SYSTEM_PROMPT), Turn("user", user_text)>>

\* lines 55-58: the history with the system prompt (once) and the user turn
HistoryWithUserTurn(history, user_text) ==
  (IF Len(history) = 0 THEN <<Turn("system", SYSTEM_PROMPT)>> ELSE history)
  \o <<Turn("user", user_text)>>

\* the routed result stored in place of the completion
HistoryWithRoutedTurn(history, bot_response, final_response) ==
  Append(history, Turn("assistant", final_response))

\* no assistant turn for an empty result
HistoryWithAssistantTurnUnlessEmpty(history, bot_response, final_response) ==
  IF final_response = <<>> THEN history
  ELSE Append(history, Turn("assistant", bot_response))

\* line 82: the history with the assistant turn
HistoryWithAssistantTurn(history, bot_response, final_response) ==
  Append(history, Turn("assistant", bot_response))

\* a call that has begun, and the same call once it has returned
BegunTurn(user_text) ==
  [user_text |-> user_text, completion |-> <<>>, returned |-> FALSE]
ReturnedTurn(turn, bot_response) ==
  [turn EXCEPT !.completion = bot_response, !.returned = TRUE]

Raise(f, what, call) ==
  [f EXCEPT !.pc = "raised", !.error = what,
            !.calls = Append(@, Faulted(call))]

\* lines 55-59
Begin(t, user_text) ==
  /\ frame[t].pc = "idle"
  /\ ncalls < MaxCalls
  /\ conversation_history' =
       HistoryWithUserTurn(conversation_history, user_text)
  /\ original_user_question' = user_text
  /\ frame' = [frame EXCEPT ![t] =
       [IdleFrame EXCEPT !.pc = "llm", !.number = ncalls + 1,
                         !.user_text = user_text,
                         !.before = conversation_history]]
  /\ ncalls' = ncalls + 1
  /\ turns' = Append(turns, BegunTurn(user_text))
  /\ UNCHANGED <<route_in, route_out,
                 split_in, split_out>>

RoutingCall == ExternalCall("llm", <<>>, <<>>, conversation_history, JNull)

\* lines 62-76: the routing call returns generated_text
LlmReturn(t, generated_text) ==
  /\ frame[t].pc = "llm"
  /\ frame' = [frame EXCEPT ![t].pc = "route",
                            ![t].bot_response = Strip(generated_text),
                            ![t].calls =
                              Append(@, Answered(RoutingCall, generated_text, 0))]
  /\ UNCHANGED <<conversation_history, original_user_question, ncalls, turns,
                 route_in, route_out,
                 split_in, split_out>>

\* lines 62-75: the tokenizer or the model raises
LlmFail(t) ==
  /\ frame[t].pc = "llm"
  /\ frame' = [frame EXCEPT ![t] = Raise(@, "llm", RoutingCall)]
  /\ UNCHANGED <<conversation_history, original_user_question, ncalls, turns,
                 route_in, route_out,
                 split_in, split_out>>

\* line 79 and _route_llm_output, up to its return or its call of
\* _search_arxiv
Route(t) ==
  LET r == RouteLlmOutput(frame[t].bot_response)
  IN  /\ frame[t].pc = "route"
      /\ frame' = [frame EXCEPT ![t] =
           CASE r.kind = "return" ->
                  [@ EXCEPT !.pc = "append", !.final_response = r.text]
             [] r.kind = "search" ->
                  [@ EXCEPT !.pc = "fetch", !.query = r.query]
             [] OTHER ->
                  [@ EXCEPT !.pc = "raised", !.error = "route"]]
      /\ UNCHANGED <<conversation_history, original_user_question, ncalls, turns,
                     route_in, route_out,
                 split_in, split_out>>

\* lines 126-128 and 143: fetch_and_parse_arxiv(query, max_results=50)
Fetch(t, feed) ==
  LET arxiv_response == FetchAndParseArxiv(feed)
      call == [ExternalCall("fetch", <<>>, <<>>, <<>>, frame[t].query)
                 EXCEPT !.max_results = FetchCap, !.fault = feed.raises]
  IN  /\ frame[t].pc = "fetch"
      /\ frame' = [frame EXCEPT ![t] =
           IF arxiv_response.raised THEN Raise(@, "fetch", call)
           ELSE IF Len(arxiv_response.papers) > 0
             THEN [@ EXCEPT !.pc = "rank",
                            !.papers = arxiv_response.papers,
                            !.calls = Append(@, Answered(call, <<>>,
                                               Len(arxiv_response.papers)))]
           ELSE [@ EXCEPT !.pc = "append",
                          !.final_response = NoPapersMessage(frame[t].query),
                          !.calls = Append(@, Answered(call, <<>>, 0))]]
      /\ UNCHANGED <<conversation_history, original_user_question, ncalls, turns,
                     route_in, route_out,
                 split_in, split_out>>

\* paper_summaries of line 130
PaperSummaries(papers) == [i \in 1..Len(papers) |-> papers[i].summary]

\* the ranker asked about the user_text argument of the call in progress
RankerCallWithUserText(t) ==
  ExternalCall("rank", frame[t].user_text,
               PaperSummaries(frame[t].papers), <<>>, JNull)

\* the ranker asked about the query of the tool call
RankerCallWithQuery(t) ==
  ExternalCall("rank", <<PyStr(frame[t].query)>>,
               PaperSummaries(frame[t].papers), <<>>, JNull)

\* line 131: rerank_crossencoder(self.original_user_question, paper_summaries)
RankerCall(t) ==
  ExternalCall("rank", original_user_question,
               PaperSummaries(frame[t].papers), <<>>, JNull)

\* lines 130-138: the ranker returns one score per summary
Rank(t, scores) ==
  /\ frame[t].pc = "rank"
  /\ Len(scores) = Len(frame[t].papers)
  /\ frame' = [frame EXCEPT ![t].pc = "synth",
                            ![t].papers_and_scores =
                              SortByScore(Zip(frame[t].papers, scores)),
                            ![t].top_papers =
                              TopPapers(SortByScore(Zip(frame[t].papers, scores))),
                            ![t].calls =
                              Append(@, [Answered(RankerCall(t), <<>>, Len(scores))
                                           EXCEPT !.scores = scores])]
  /\ UNCHANGED <<conversation_history, original_user_question, ncalls, turns,
                 route_in, route_out,
                 split_in, split_out>>

\* line 131: the ranker raises
RankFail(t) ==
  /\ frame[t].pc = "rank"
  /\ frame' = [frame EXCEPT ![t] = Raise(@, "rank", RankerCall(t))]
  /\ UNCHANGED <<conversation_history, original_user_question, ncalls, turns,
                 route_in, route_out,
                 split_in, split_out>>

SynthesisCall(t) ==
  ExternalCall("synth", <<>>, <<>>, SummaryMessages(frame[t].top_papers),
               JNull)

\* the synthesis run inside the session: its prompt and its text appended
\* to the conversation history
SynthInHistory(t, generated_text) ==
  /\ frame[t].pc = "synth"
  /\ frame' = [frame EXCEPT ![t].pc = "append",
                            ![t].final_response = Strip(generated_text),
                            ![t].calls =
                              Append(@, Answered(SynthesisCall(t), generated_text, 0))]
  /\ conversation_history' =
       conversation_history \o SummaryMessages(frame[t].top_papers)
       \o <<Turn("assistant", Strip(generated_text))>>
  /\ UNCHANGED <<original_user_question, ncalls, turns, route_in, route_out,
                 split_in, split_out>>

\* lines 141 and 145-185: the synthesis call returns generated_text
Synth(t, generated_text) ==
  /\ frame[t].pc = "synth"
  /\ frame' = [frame EXCEPT ![t].pc = "append",
                            ![t].final_response = Strip(generated_text),
                            ![t].calls =
                              Append(@, Answered(SynthesisCall(t), generated_text, 0))]
  /\ UNCHANGED <<conversation_history, original_user_question, ncalls, turns,
                 route_in, route_out,
                 split_in, split_out>>

\* lines 170-183: the tokenizer or the model raises
SynthFail(t) ==
  /\ frame[t].pc = "synth"
  /\ frame' = [frame EXCEPT ![t] = Raise(@, "synth", SynthesisCall(t))]
  /\ UNCHANGED <<conversation_history, original_user_question, ncalls, turns,
                 route_in, route_out,
                 split_in, split_out>>

\* lines 82-84
AppendAssistant(t) ==
  /\ frame[t].pc = "append"
  /\ conversation_history' =
       HistoryWithAssistantTurn(conversation_history, frame[t].bot_response,
                                frame[t].final_response)
  /\ frame' = [frame EXCEPT ![t].pc = "done"]
  /\ turns' = [turns EXCEPT ![frame[t].number] =
                 ReturnedTurn(@, frame[t].bot_response)]
  /\ UNCHANGED <<original_user_question, ncalls, route_in, route_out,
                 split_in, split_out>>

\* the caller has the result, or the exception
Return(t) ==
  /\ frame[t].pc \in {"done", "raised"}
  /\ frame' = [frame EXCEPT ![t] = IdleFrame]
  /\ UNCHANGED <<conversation_history, original_user_question, ncalls, turns,
                 route_in, route_out,
                 split_in, split_out>>

\* one turn in flight at a time
Serial == \A t \in Threads : frame[t].pc = "idle"

ScoreLists == UNION {[1..n -> ScoreValues] : n \in 1..Min(MaxPapers, FetchCap)}

Next ==
  \/ \E t \in Threads, user_text \in UserTexts : Serial /\ Begin(t, user_text)
  \/ \E t \in Threads, generated_text \in GeneratedTexts :
       LlmReturn(t, generated_text)
  \/ \E t \in Threads : LlmFail(t)
  \/ \E t \in Threads : Route(t)
  \/ \E t \in Threads, feed \in Feeds : Fetch(t, feed)
  \/ \E t \in Threads, scores \in ScoreLists : Rank(t, scores)
  \/ \E t \in Threads : RankFail(t)
  \/ \E t \in Threads, generated_text \in SummaryTexts :
       Synth(t, generated_text)
  \/ \E t \in Threads : SynthFail(t)
  \/ \E t \in Threads : AppendAssistant(t)
  \/ \E t \in Threads : Return(t)

Spec == Init /\ [][Next]_vars

(***************************************************************************)
(* _route_llm_output called on its own, on every text of RouteInputs.      *)
(***************************************************************************)
\* lexemes of the short texts tried, and their greatest length
MaxLen == 2
ShortLexemes ==
  {"{", "}", "[", "]", ":", " ", "Hi", "42", Quote("function"), Quote("none")}

\* lexemes that run together when adjacent: a text never has two in a row
Bare == NumToks \cup {"true", "false", "null", "Hi"}
WellSplit(t) == \A i \in 1..(Len(t) - 1) : ~(t[i] \in Bare /\ t[i + 1] \in Bare)

ShortTexts ==
  {t \in UNION {[1..n -> ShortLexemes] : n \in 0..MaxLen} : WellSplit(t)}

Queries == {"au:Einstein", "a{b}", ""}

RouteBodies ==
  {SearchEnvelope(q) : q \in Queries}
  \cup { Envelope(Quote("none"), <<"{", "}">>),
         Envelope(Quote("foo"), QueryArgs("au:Einstein")),
         Envelope(Quote(""), QueryArgs("au:Einstein")),
         Envelope("42", <<"{", "}">>),
         Envelope("0", QueryArgs("au:Einstein")),
         Envelope("false", QueryArgs("au:Einstein")),
         <<"{", Quote("function"), ":", Quote(""), "}">>,
         Envelope("null", QueryArgs("au:Einstein")),
         Envelope(Quote("search_arxiv"), <<"null">>),
         Envelope(Quote("search_arxiv"), <<"[", Quote("au:Einstein"), "]">>),
         Envelope(Quote("search_arxiv"), <<"{", "}">>),
         <<"{", Quote("function"), ":", " ", Quote("search_arxiv"), "}">>,
         <<"{", Quote("function"), ":", Quote("foo"), "}">>,
         <<"{", Quote("query"), ":", Quote("function"), "}">>,
         <<"{", Quote("function"), " ", "Hi", "}">>,
         <<"[", "42", ",", " ", "null", "]">>,
         <<Quote("foo")>>, <<"0">>, <<"true">>, <<"null">>,
         <<"Hi", " ", "there">> }

\* a completion around a body: alone, in whitespace, before a closing code
\* fence, inside a fenced block, after prose
Wraps == {"alone", "spaces", "fence", "fenced", "prose"}
Wrap(w, body) ==
  CASE w = "alone" -> body
    [] w = "spaces" -> <<" ">> \o body \o <<"\n">>
    [] w = "fence" -> body \o <<"\n", FENCE>>
    [] w = "fenced" -> <<FENCE, "\n">> \o body \o <<"\n", FENCE>>
    [] OTHER -> <<"Hi", " ">> \o body

RouteInputs == ShortTexts \cup {Wrap(w, body) : w \in Wraps, body \in RouteBodies}

RouteInit ==
  /\ conversation_history = <<>>
  /\ original_user_question = <<>>
  /\ frame = [t \in Threads |-> IdleFrame]
  /\ ncalls = 0
  /\ turns = <<>>
  /\ route_in \in RouteInputs
  /\ route_out = NotRouted
  /\ split_in = NoSplitArguments
  /\ split_out = NotSplit

\* self._route_llm_output(route_in)
RouteCall ==
  /\ route_out = NotRouted
  /\ route_out' = RouteLlmOutput(route_in)
  /\ UNCHANGED <<conversation_history, original_user_question, frame, ncalls, turns,
                 route_in,
                 split_in, split_out>>

RouteNext == RouteCall

SpecRoute == RouteInit /\ [][RouteNext]_vars

(***************************************************************************)
(* Properties.                                                             *)
(***************************************************************************)
LastTurn == conversation_history[Len(conversation_history)]

\* the thread's call is past _route_llm_output's parsing and dispatch
Routed(f) == f.pc \notin {"idle", "llm", "route"}

\* what the router parses out of each completion of GeneratedTexts
ParsedCompletions ==
  [text \in {Strip(g) : g \in GeneratedTexts} |-> ParseLlmOutput(text)]

\* what the router parses out of a text
ReadEnvelope(text) ==
  IF text \in DOMAIN ParsedCompletions THEN ParsedCompletions[text]
  ELSE ParseLlmOutput(text)

\* the function name of the envelope the router read from the completion
\* (None without an envelope)
EnvelopeFunction(text) ==
  LET e == ReadEnvelope(text)
  IN  IF e.ok /\ e.v.k = "obj" THEN Get(e.v, "function", JNull) ELSE JNull

\* the query of that envelope, as the dispatcher reads it
EnvelopeQuery(text) ==
  Get(Get(ReadEnvelope(text).v, "arguments", JObj(<<>>)), "query", JStr(""))

OnlyRoutingCall(f) == Len(f.calls) = 1 /\ f.calls[1].op = "llm"

\* C1: when the routing model call, the ranker call or the synthesis model
\* call fails, the turn is aborted and conversation_history is what it was
\* before the call began.
C1_AbortLeavesHistoryUntouched ==
  \A t \in Threads :
    (frame[t].pc = "raised" /\ frame[t].error \in {"llm", "rank", "synth"})
      => conversation_history = frame[t].before

\* C2, as stated: every call that returns grows conversation_history by
\* exactly two turns.
C2_GrowsByExactlyTwo ==
  \A t \in Threads :
    frame[t].pc = "done"
      => Len(conversation_history) = Len(frame[t].before) + 2

\* C2, amended: every call that returns keeps the history it found and
\* appends the user turn and the assistant turn, which is a growth of two,
\* except on an empty history, where the system turn comes first and the
\* growth is three.
C2_GrowsByTwoAfterSystemTurn ==
  \A t \in Threads :
    frame[t].pc = "done"
      => LET h == conversation_history
             before == frame[t].before
         IN  /\ Len(h) = Len(before) + (IF Len(before) = 0 THEN 3 ELSE 2)
             /\ SubSeq(h, 1, Len(before)) = before
             /\ h[Len(h) - 1] = Turn("user", frame[t].user_text)
             /\ h[Len(h)].role = "assistant"
             /\ Len(before) = 0 => h[1].role = "system"

\* C2 witness: a second call that went through the search_arxiv tool call
\* has returned.
C2_Witness ==
  \E t \in Threads :
    /\ frame[t].pc = "done"
    /\ Len(frame[t].before) > 0
    /\ Len(frame[t].calls) = 4
    /\ Len(conversation_history) = Len(frame[t].before) + 2

\* C3: once a call has been made (aborted calls included), the history
\* holds exactly one system turn, and it is the first element.
C3_OneSystemTurnFirst ==
  ncalls >= 1
    => /\ conversation_history[1].role = "system"
       /\ Cardinality({i \in 1..Len(conversation_history) :
                         conversation_history[i].role = "system"}) = 1

\* C3 witness: a second call has returned after a first call that aborted
\* (two user turns in a row).
C3_Witness ==
  /\ ncalls = 2
  /\ \E t \in Threads : frame[t].pc = "done"
  /\ Len(conversation_history) = 4
  /\ conversation_history[2].role = "user"
  /\ conversation_history[3].role = "user"

\* C4: the assistant turn appended by generate_response carries the
\* completion of the routing call of that turn (trimmed, as line 76 takes
\* it), whatever the routed or synthesized result is.
C4_AssistantTurnIsCompletion ==
  \A t \in Threads :
    frame[t].pc = "done"
      => /\ frame[t].calls[1].op = "llm"
         /\ LastTurn = Turn("assistant", Strip(frame[t].calls[1].out))

\* C4 witness: the completion was a search_arxiv envelope, the caller gets
\* the synthesized summary and the history holds the envelope.
C4_Witness ==
  \E t \in Threads :
    /\ frame[t].pc = "done"
    /\ Len(frame[t].calls) = 4
    /\ frame[t].final_response = Strip(frame[t].calls[4].out)
    /\ frame[t].final_response = <<"Summary">>
    /\ LastTurn.content = SearchEnvelope("au:Einstein")

\* C5: a well-formed search_arxiv envelope with query q, alone, in
\* whitespace or followed by a code fence, is dispatched to search_arxiv
\* with exactly q.
C5_WrappedEnvelopeIsDispatched ==
  \A q \in Queries, w \in {"alone", "spaces", "fence"} :
    (route_out # NotRouted /\ route_in = Wrap(w, SearchEnvelope(q)))
      => route_out = CallsSearch(JStr(q))

\* C6: a completion that parses as JSON to something other than an object
\* is returned unchanged as plain text, without raising.
C6_NonObjectIsPlainText ==
  LET whole == JsonLoads(Strip(route_in))
  IN  (route_out # NotRouted /\ whole.ok /\ whole.v.k # "obj")
        => route_out = Returned(route_in)

\* the flat substrings of t (no brace inside) that parse as a JSON object
\* with a function key
FlatFunctionObjects(t) ==
  {ij \in (1..Len(t)) \X (1..Len(t)) :
     /\ ij[1] < ij[2]
     /\ t[ij[1]] = "{"
     /\ t[ij[2]] = "}"
     /\ \A k \in (ij[1] + 1)..(ij[2] - 1) : ~HasBrace(t[k])
     /\ LET r == JsonLoads(SubSeq(t, ij[1], ij[2]))
        IN  r.ok /\ \E k \in 1..Len(r.v.m) : r.v.m[k][1] = "function"}

NoFunctionCallIn(t) ==
  ~JsonLoads(Strip(t)).ok /\ FlatFunctionObjects(t) = {}

\* C7: a text that does not parse as JSON as a whole and has no parseable
\* flat JSON substring with a function key is returned exactly as it is.
C7_PlainTextUnchanged ==
  (route_out # NotRouted /\ NoFunctionCallIn(route_in))
    => route_out = Returned(route_in)

\* C7 witness: such a text, in whitespace, in which the pattern matches a
\* substring that does not parse.
C7_Witness ==
  /\ route_out = Returned(route_in)
  /\ NoFunctionCallIn(route_in)
  /\ ReSearch(route_in)[1] # 0
  /\ Strip(route_in) # route_in

\* C8: when the envelope read from the completion has function none, the
\* routed result is the empty string and the turn makes no fetch, no ranker
\* call and no second model call.
C8_NoneIsNoOp ==
  \A t \in Threads :
    (Routed(frame[t]) /\ EnvelopeFunction(frame[t].bot_response) = JStr("none"))
      => /\ frame[t].pc \in {"append", "done"}
         /\ frame[t].final_response = <<>>
         /\ OnlyRoutingCall(frame[t])

\* C8 witness: a turn whose completion wraps the none envelope in prose has
\* returned.
C8_Witness ==
  \E t \in Threads :
    /\ frame[t].pc = "done"
    /\ EnvelopeFunction(frame[t].bot_response) = JStr("none")
    /\ Head(frame[t].bot_response) = "Hi"
    /\ frame[t].final_response = <<>>

UnknownFunction(name) ==
  ~Falsy(name) /\ name # JStr("none") /\ name # JStr("search_arxiv")

\* C9: an envelope whose function is non-empty and neither none nor
\* search_arxiv routes to the text Error: Unknown function '<name>'; nothing
\* is raised, nothing is fetched, ranked or synthesized, and the turn ends
\* with the assistant turn appended and that text returned.
C9_UnknownFunctionIsReported ==
  \A t \in Threads :
    LET f == frame[t]
        name == EnvelopeFunction(f.bot_response)
    IN  (Routed(f) /\ UnknownFunction(name))
          => /\ f.pc \in {"append", "done"}
             /\ f.final_response =
                  <<"Error: Unknown function '" \o PyStr(name) \o "'">>
             /\ OnlyRoutingCall(f)
             /\ f.pc = "done" => LastTurn = Turn("assistant", f.bot_response)

\* C9 witness: the turn of an envelope with function foo has returned.
C9_Witness ==
  \E t \in Threads :
    /\ frame[t].pc = "done"
    /\ EnvelopeFunction(frame[t].bot_response) = JStr("foo")
    /\ frame[t].final_response = <<"Error: Unknown function 'foo'">>

\* the fetch of the call has returned no document
FetchedNothing(f) ==
  /\ Len(f.calls) >= 2
  /\ f.calls[2].op = "fetch"
  /\ f.calls[2].n = 0
  /\ f.error # "fetch"

\* C10: when the fetch returns no document, the result is the text
\* No papers found for query: <query> with the query of the tool call, and
\* neither the ranker nor the synthesis call is made.
C10_NoPapersMessage ==
  \A t \in Threads :
    LET f == frame[t]
    IN  FetchedNothing(f)
          => /\ f.pc \in {"append", "done"}
             /\ f.final_response =
                  <<"No papers found for query: "
                    \o PyStr(EnvelopeQuery(f.bot_response))>>
             /\ Len(f.calls) = 2
             /\ f.calls[2].q = EnvelopeQuery(f.bot_response)

\* C10 witness: the turn of a search for au:Einstein that fetched nothing
\* has returned.
C10_Witness ==
  \E t \in Threads :
    /\ frame[t].pc = "done"
    /\ FetchedNothing(frame[t])
    /\ frame[t].bot_response = SearchEnvelope("au:Einstein")
    /\ frame[t].final_response = <<"No papers found for query: au:Einstein">>
    /\ frame[t].user_text = <<"Hello">>

(***************************************************************************)
(* The retrieval client under a failing feed.                              *)
(***************************************************************************)
\* the fetch of the call met a failure of the feed (network, parser)
FetchFailed(f) ==
  /\ Len(f.calls) >= 2
  /\ f.calls[2].op = "fetch"
  /\ f.calls[2].fault

\* C11: a fetch that failed reaches _search_arxiv as the one error paper and
\* ends as the text No papers found for query: <query>; the error paper is
\* handed neither to the ranker nor to the synthesis call.
C11_FailedFetchIsNoPapers ==
  \A t \in Threads :
    LET f == frame[t]
    IN  FetchFailed(f)
          => /\ f.pc \in {"append", "done"}
             /\ f.final_response = NoPapersMessage(f.calls[2].q)
             /\ Len(f.calls) = 2

\* C12: fetch_and_parse_arxiv never raises; on a failure of the feed it
\* returns exactly one paper, the error paper.
C12_FetchNeverRaises ==
  \A t \in Threads :
    LET f == frame[t]
    IN  /\ f.error # "fetch"
        /\ FetchFailed(f) => f.calls[2].n = 1

(***************************************************************************)
(* The ranked order and the documents handed to the synthesis call.        *)
(***************************************************************************)
\* the ranker of the call has returned its scores
Ranked(f) ==
  /\ Len(f.calls) >= 3
  /\ f.calls[3].op = "rank"
  /\ ~f.calls[3].fault

\* the place of a paper in the fetch order of the call
FetchPlace(f, paper) ==
  CHOOSE k \in 1..Len(f.papers) : f.papers[k].id = paper.id

\* C13: the ranked order holds every fetched document once, with the score
\* the ranker gave it, by score descending; documents of equal score keep
\* their fetch order.
C13_RankedByScoreStable ==
  \A t \in Threads :
    LET f == frame[t]
        ranked == f.papers_and_scores
        place == [i \in 1..Len(ranked) |-> FetchPlace(f, ranked[i][1])]
    IN  Ranked(f)
          => /\ Len(ranked) = Len(f.papers)
             /\ \A i \in 1..Len(ranked) :
                  ranked[i] = <<f.papers[place[i]], f.calls[3].scores[place[i]]>>
             /\ \A i, j \in 1..Len(ranked) :
                  i < j => \/ ranked[i][2] > ranked[j][2]
                           \/ /\ ranked[i][2] = ranked[j][2]
                              /\ place[i] < place[j]

\* C13 witness: three documents scored low, high, low are ranked second,
\* first, third.
C13_Witness ==
  \E t \in Threads :
    /\ Ranked(frame[t])
    /\ frame[t].calls[3].scores = <<1, 2, 1>>
    /\ [i \in 1..3 |-> frame[t].papers_and_scores[i][1].id]
         = <<Entry(2).id, Entry(1).id, Entry(3).id>>

\* the synthesis call of the call has been made
Synthesized(f) == Len(f.calls) >= 4 /\ f.calls[4].op = "synth"

\* the line that presents a paper in the synthesis prompt
TitleLine(paper) == "Title: " \o paper.title

\* the fetched documents the synthesis prompt presents
Handed(f) ==
  LET prompt == f.calls[4].msgs[1].content
  IN  {k \in 1..Len(f.papers) :
         \E i \in 1..Len(prompt) : prompt[i] = TitleLine(f.papers[k])}

PromptPlace(f, paper) ==
  LET prompt == f.calls[4].msgs[1].content
  IN  CHOOSE i \in 1..Len(prompt) : prompt[i] = TitleLine(paper)

\* C14: of n >= 1 fetched documents the synthesis call is handed exactly
\* the first min(3, n) of the ranked order, in that order, never more than
\* three, and no document left out scored strictly higher than one handed
\* over.
C14_TopThreeAreSynthesized ==
  \A t \in Threads :
    LET f == frame[t]
        ranked == f.papers_and_scores
        n == Len(f.papers)
        k == Min(TopK, n)
        handed == Handed(f)
        place == [i \in 1..n |-> FetchPlace(f, ranked[i][1])]
        shown == [i \in 1..k |-> PromptPlace(f, ranked[i][1])]
    IN  Synthesized(f)
          => /\ n >= 1
             /\ Cardinality(handed) = k
             /\ handed = {place[i] : i \in 1..k}
             /\ \A i, j \in 1..k : i < j => shown[i] < shown[j]
             /\ \A i \in 1..n, j \in 1..n :
                  (place[i] \notin handed /\ place[j] \in handed)
                    => ranked[i][2] <= ranked[j][2]

\* C14 witness: of four documents scored low, high, high, high the last
\* three were handed to the synthesis call and the first left out.
C14_Witness ==
  \E t \in Threads :
    /\ frame[t].pc = "done"
    /\ Synthesized(frame[t])
    /\ frame[t].calls[3].scores = <<1, 2, 2, 2>>
    /\ Handed(frame[t]) = {2, 3, 4}

(***************************************************************************)
(* The arguments of the ranker.                                            *)
(***************************************************************************)
\* the ranker of the call has been invoked
RankerInvoked(f) == Len(f.calls) >= 3 /\ f.calls[3].op = "rank"

\* C15: with one turn in flight at a time, the question handed to the ranker
\* is the user_text of the call in progress, not the query of the tool call
\* and not the text of an earlier turn, and the candidates are the summaries
\* of the fetched documents in fetch order.
C15_RankerGetsUserText ==
  \A t \in Threads :
    LET f == frame[t]
        call == f.calls[3]
    IN  RankerInvoked(f)
          => /\ call.question = f.user_text
             /\ Len(call.texts) = f.calls[2].n
             /\ \A i \in 1..Len(call.texts) :
                  call.texts[i] = Strip(Entry(i).summary)

\* C15 witness: in a second turn, with another user text than the first, the
\* ranker was asked about two documents.
C15_Witness ==
  \E t \in Threads :
    /\ RankerInvoked(frame[t])
    /\ frame[t].user_text = <<"Hello">>
    /\ \E i \in 1..Len(frame[t].before) :
         frame[t].before[i] = Turn("user", <<"Search for quantum computing.">>)
    /\ frame[t].calls[3].question = <<"Hello">>
    /\ frame[t].calls[3].texts = <<<<"Abstract1">>, <<"Abstract2">>>>

(***************************************************************************)
(* The external calls of one turn.                                         *)
(***************************************************************************)
CallOrder == <<"llm", "fetch", "rank", "synth">>

\* C16: the external calls of one generate_response call are a prefix of
\* routing call, fetch, ranker, synthesis call: each is made at most once
\* and only after the one before it has returned, and fetch, ranker and
\* synthesis are made only when the completion routes to search_arxiv; a
\* plain-text completion causes the routing call alone.
C16_CallsFormPrefix ==
  \A t \in Threads :
    LET f == frame[t]
        made == Len(f.calls)
    IN  /\ made <= Len(CallOrder)
        /\ \A i \in 1..made : f.calls[i].op = CallOrder[i]
        /\ \A i \in 1..made : f.calls[i].fault => i = made /\ f.pc = "raised"
        /\ made >= 2 => EnvelopeFunction(f.bot_response) = JStr("search_arxiv")
        /\ (Routed(f) /\ f.bot_response = <<"Hi", " ", "there">>)
             => OnlyRoutingCall(f)

\* C16 witness: a turn that routed to search_arxiv has returned after all
\* four calls, each answered.
C16_Witness ==
  \E t \in Threads :
    /\ frame[t].pc = "done"
    /\ [i \in 1..Len(frame[t].calls) |-> frame[t].calls[i].op] = CallOrder
    /\ \A i \in 1..4 : ~frame[t].calls[i].fault
    /\ frame[t].calls[4].out = <<" ", "Summary", "\n">>

(***************************************************************************)
(* Retrieval and synthesis leave the session alone.                        *)
(***************************************************************************)
\* the thread is between the start of _search_arxiv and the return of
\* _generate_paper_summary
InSearch(f) == f.pc \in {"fetch", "rank", "synth"}

\* the synthesis messages are one user turn of their own, and neither that
\* prompt nor the synthesized text is a turn of the history
SynthesisApart(f) ==
  LET call == f.calls[4]
  IN  /\ Len(call.msgs) = 1
      /\ call.msgs[1].role = "user"
      /\ call.msgs # conversation_history
      /\ \A i \in 1..Len(conversation_history) :
           /\ conversation_history[i].content # call.msgs[1].content
           /\ ~call.fault => conversation_history[i].content # Strip(call.out)

\* C17: from the start of _search_arxiv to the return of
\* _generate_paper_summary no step changes conversation_history or
\* original_user_question; the synthesis prompt is a fresh list of one user
\* turn, and neither it nor the synthesized text is ever in the history.
C17_SearchLeavesSessionUntouched ==
  /\ [](\A t \in Threads : Synthesized(frame[t]) => SynthesisApart(frame[t]))
  /\ [][(\E t \in Threads : InSearch(frame[t]))
          => UNCHANGED <<conversation_history, original_user_question>>]_vars

\* C17 witness: a turn whose synthesis call returned a summary is done, and
\* the history ends with the envelope of the tool call.
C17_Witness ==
  \E t \in Threads :
    /\ frame[t].pc = "done"
    /\ Synthesized(frame[t])
    /\ frame[t].final_response = <<"Summary">>
    /\ LastTurn = Turn("assistant", SearchEnvelope("au:Einstein"))
    /\ Len(conversation_history) = Len(frame[t].before) + 2

(***************************************************************************)
(* Envelopes without a function, without a query, with odd arguments.      *)
(***************************************************************************)
\* the router parsed an object out of the text, and its function is missing
\* or falsy
NoFunctionIn(text) ==
  LET e == ParseLlmOutput(text)
  IN  e.ok /\ e.v.k = "obj" /\ Falsy(Get(e.v, "function", JNull))

\* C18: an object without a function key, or whose function is the empty
\* string, null or another falsy value, is not dispatched: the router
\* returns the completion text unchanged, whether or not the object carries
\* arguments with a query.
C18_NoFunctionIsPlainText ==
  (route_out # NotRouted /\ NoFunctionIn(route_in))
    => route_out = Returned(route_in)

\* C18 witness: the envelope with an empty function name and a query, in
\* whitespace, came back as it was.
C18_Witness ==
  /\ route_in = Wrap("spaces", Envelope(Quote(""), QueryArgs("au:Einstein")))
  /\ NoFunctionIn(route_in)
  /\ route_out = Returned(route_in)

HasKey(obj, key) == \E i \in 1..Len(obj.m) : obj.m[i][1] = key

\* the router read a search_arxiv envelope whose arguments are missing, or
\* are an object without a query
SearchWithoutQuery(text) ==
  LET e == ReadEnvelope(text)
  IN  /\ EnvelopeFunction(text) = JStr("search_arxiv")
      /\ \/ ~HasKey(e.v, "arguments")
         \/ /\ Get(e.v, "arguments", JNull).k = "obj"
            /\ ~HasKey(Get(e.v, "arguments", JNull), "query")

\* C19: a search_arxiv envelope without arguments, or whose arguments have
\* no query, is dispatched with the empty string as query: the fetch is
\* called with query "" and max_results 50, and when it returns no document
\* the result is the No papers found text with the empty query.
C19_MissingQueryIsEmpty ==
  \A t \in Threads :
    LET f == frame[t]
    IN  (Routed(f) /\ SearchWithoutQuery(f.bot_response))
          => /\ f.error # "route"
             /\ f.query = JStr("")
             /\ Len(f.calls) >= 2
                  => /\ f.calls[2].op = "fetch"
                     /\ f.calls[2].q = JStr("")
                     /\ f.calls[2].max_results = FetchCap
             /\ FetchedNothing(f)
                  => f.final_response = <<"No papers found for query: ">>

\* C19 witness: the turn of a search_arxiv envelope without arguments
\* fetched nothing and has returned.
C19_Witness ==
  \E t \in Threads :
    /\ frame[t].pc = "done"
    /\ frame[t].bot_response =
         <<"{", Quote("function"), ":", " ", Quote("search_arxiv"), "}">>
    /\ FetchedNothing(frame[t])
    /\ frame[t].calls[2].q = JStr("")
    /\ frame[t].final_response = <<"No papers found for query: ">>

\* the router read an envelope with a non-empty function whose arguments
\* are present and not an object
OddArguments(text) ==
  LET e == ReadEnvelope(text)
  IN  /\ ~Falsy(EnvelopeFunction(text))
      /\ HasKey(e.v, "arguments")
      /\ Get(e.v, "arguments", JNull).k # "obj"

\* C20: an envelope with a non-empty function and arguments that are not a
\* mapping (null, a string, a number, a list) does not make the router
\* raise: no turn is aborted by an exception of _route_llm_output.
C20_OddArgumentsAreTolerated ==
  \A t \in Threads :
    LET f == frame[t]
    IN  (Routed(f) /\ OddArguments(f.bot_response))
          => f.error # "route"

(***************************************************************************)
(* Two callers of the module-level generate_response at once: the turns on *)
(* the shared ResearchAssistant are not serialized.                        *)
(***************************************************************************)
\* completions of the routing call: plain text, a tool call
ConcurrentTexts ==
  { <<"Hi", " ", "there">>,
    <<" ">> \o SearchEnvelope("au:Einstein") \o <<"\n">> }

\* feeds of at most one entry, and the failing feed
ConcurrentFeeds == {feed \in Feeds : Len(feed.entries) <= 1}

NextConcurrent ==
  \/ \E t \in Threads, user_text \in UserTexts : Begin(t, user_text)
  \/ \E t \in Threads, generated_text \in ConcurrentTexts :
       LlmReturn(t, generated_text)
  \/ \E t \in Threads : LlmFail(t)
  \/ \E t \in Threads : Route(t)
  \/ \E t \in Threads, feed \in ConcurrentFeeds : Fetch(t, feed)
  \/ \E t \in Threads, scores \in ScoreLists : Rank(t, scores)
  \/ \E t \in Threads : RankFail(t)
  \/ \E t \in Threads, generated_text \in SummaryTexts :
       Synth(t, generated_text)
  \/ \E t \in Threads : SynthFail(t)
  \/ \E t \in Threads : AppendAssistant(t)
  \/ \E t \in Threads : Return(t)

SpecConcurrent == Init /\ [][NextConcurrent]_vars

\* the place in the history of the user turn the call appended
UserTurnPlace(f) == Len(f.before) + (IF f.before = <<>> THEN 2 ELSE 1)

\* C21: on a session shared by two calls the ranker of a call is asked about
\* the user_text of whichever call began last before the ranker was invoked,
\* its own or the other's: a call that begins while another is between its
\* routing and its ranking has its text used for the other call's search,
\* and began on a history that already held the other call's user turn.
C21_RankerGetsLatestUserText ==
  \A t, u \in Threads :
    LET f == frame[t]
        g == frame[u]
    IN  (RankerInvoked(f) /\ g.number = f.calls[3].started)
          => /\ f.calls[3].question = g.user_text
             /\ t # u => /\ f.number < g.number
                         /\ UserTurnPlace(f) <= Len(g.before)
                         /\ g.before[UserTurnPlace(f)]
                              = Turn("user", f.user_text)

\* C21 witness: the first call searched, the second began before the first
\* ranked: the first call's ranker was asked about the second call's text,
\* and the history holds the two user turns next to each other.
C21_Witness ==
  \E t, u \in Threads :
    LET f == frame[t]
        g == frame[u]
    IN  /\ t # u
        /\ RankerInvoked(f)
        /\ f.number = 1 /\ g.number = 2
        /\ f.user_text = <<"Search for quantum computing.">>
        /\ g.user_text = <<"Hello">>
        /\ f.calls[3].question = <<"Hello">>
        /\ SubSeq(conversation_history, 2, 3)
             = <<Turn("user", f.user_text), Turn("user", g.user_text)>>

(***************************************************************************)
(* The history after N calls that returned.                                *)
(***************************************************************************)
\* a user turn and an assistant turn for every call of the log, in order
RECURSIVE TurnPairs(_)
TurnPairs(log) ==
  IF log = <<>> THEN <<>>
  ELSE TurnPairs(SubSeq(log, 1, Len(log) - 1))
       \o <<Turn("user", log[Len(log)].user_text),
            Turn("assistant", log[Len(log)].completion)>>

\* every call begun so far has returned
AllReturned == \A i \in 1..Len(turns) : turns[i].returned

IsPrefix(s, t) == Len(s) <= Len(t) /\ SubSeq(t, 1, Len(s)) = s

\* the history is as N returned calls leave it
HistoryOfReturnedCalls ==
  /\ turns # <<>>
       => /\ conversation_history
               = <<Turn("system", SYSTEM_PROMPT)>> \o TurnPairs(turns)
          /\ original_user_question = turns[Len(turns)].user_text
          /\ original_user_question
               = conversation_history[Len(conversation_history) - 1].content
  /\ turns = <<>> => conversation_history = <<>>

\* C22: after N calls made one at a time that all returned, the history is
\* the system turn followed by N pairs of a user turn and an assistant turn
\* in call order, holding the user_text and the completion of each call,
\* and original_user_question is the content of the last user turn; no step
\* removes, reorders or rewrites a turn: every history is a prefix of the
\* next one.
C22_HistoryIsTurnsInOrder ==
  /\ [](AllReturned => HistoryOfReturnedCalls)
  /\ [][IsPrefix(conversation_history, conversation_history')]_vars

\* C22 witness: two calls returned, a search and then a plain answer.
C22_Witness ==
  /\ AllReturned
  /\ Len(turns) = 2
  /\ original_user_question = <<"Hello">>
  /\ conversation_history
       = <<Turn("system", SYSTEM_PROMPT),
           Turn("user", <<"Search for quantum computing.">>),
           Turn("assistant", SearchEnvelope("au:Einstein")),
           Turn("user", <<"Hello">>),
           Turn("assistant", <<"Hi", " ", "there">>)>>

(***************************************************************************)
(* NotionUploader._split_text_into_chunks, called on its own.  A text is   *)
(* the sequence of its characters.                                         *)
(***************************************************************************)
\* longest text and largest max_length tried
MaxChars == 4
MaxWidth == 3

\* the characters of the texts: two letters, the space, a line break
Chars == {"a", "b", " ", "\n"}

\* text.split(' '): the pieces between the spaces, empty pieces included
RECURSIVE SplitOnSpace(_)
SplitOnSpace(text) ==
  LET spaces == {i \in 1..Len(text) : text[i] = " "}
  IN  IF spaces = {} THEN <<text>>
      ELSE LET first == CHOOSE i \in spaces : \A j \in spaces : i <= j
           IN  <<SubSeq(text, 1, first - 1)>>
               \o SplitOnSpace(SubSeq(text, first + 1, Len(text)))

\* lines 38-47: the loop over the words
RECURSIVE ChunkWords(_, _, _, _)
ChunkWords(words, chunks, current_chunk, max_length) ==
  IF words = <<>>
    THEN \* lines 50-51
         IF Strip(current_chunk) # <<>>
           THEN Append(chunks, Strip(current_chunk))
           ELSE chunks
  ELSE LET word == Head(words)
           potential_chunk ==
             IF current_chunk # <<>> THEN current_chunk \o <<" ">> \o word
             ELSE word
       IN  IF Len(potential_chunk) <= max_length
             THEN ChunkWords(Tail(words), chunks, potential_chunk, max_length)
           ELSE ChunkWords(Tail(words),
                           IF current_chunk # <<>>
                             THEN Append(chunks, Strip(current_chunk))
                             ELSE chunks,
                           word, max_length)

\* lines 20-54
SplitTextIntoChunks(text, max_length) ==
  IF Len(text) <= max_length THEN <<text>>
  ELSE ChunkWords(SplitOnSpace(text), <<>>, <<>>, max_length)

SplitArguments ==
  [text : UNION {[1..n -> Chars] : n \in 0..MaxChars},
   max_length : 1..MaxWidth]

SplitInit ==
  /\ conversation_history = <<>>
  /\ original_user_question = <<>>
  /\ frame = [t \in Threads |-> IdleFrame]
  /\ ncalls = 0
  /\ turns = <<>>
  /\ route_in = <<>>
  /\ route_out = NotRouted
  /\ split_in \in SplitArguments
  /\ split_out = NotSplit

\* self._split_text_into_chunks(text, max_length)
SplitCall ==
  /\ ~split_out.returned
  /\ split_out' =
       [returned |-> TRUE,
        chunks |-> SplitTextIntoChunks(split_in.text, split_in.max_length)]
  /\ UNCHANGED <<conversation_history, original_user_question, frame, ncalls,
                 turns, route_in, route_out, split_in>>

SplitNext == SplitCall

SpecSplit == SplitInit /\ [][SplitNext]_vars

\* the words of the chunks, one chunk after the other
RECURSIVE WordsOf(_)
WordsOf(chunks) ==
  IF chunks = <<>> THEN <<>>
  ELSE SplitOnSpace(Head(chunks)) \o WordsOf(Tail(chunks))

\* C23: for every text and every max_length >= 1 each chunk returned is at
\* most max_length characters long, and the words of the chunks, taken in
\* order, are the space-separated words of the text in their order.
C23_ChunksFitAndKeepWords ==
  split_out.returned
    => /\ \A i \in 1..Len(split_out.chunks) :
            Len(split_out.chunks[i]) <= split_in.max_length
       /\ WordsOf(split_out.chunks) = SplitOnSpace(split_in.text)

==========================================================================
